---- MODULE Spec2Model ----
(***************************************************************************)
(* A model of the Arbitrum block listener: the endpoint loops of           *)
(* listen_blocks / fallback_http_listener, store_block with the            *)
(* block_headers table behind it, and the Redis 'blocks' channel with the  *)
(* /ws/blocks subscribers that read it.                                    *)
(***************************************************************************)
EXTENDS Integers, Sequences, FiniteSets, TLC

\* ---------------------------------------------------------------- bounds
\* Heights the endpoints can report are 0..MaxHeight; blocks are 1..MaxHeight.
MaxHeight == 2
\* Number of /ws/blocks clients.
NumSubs == 2
\* Messages Redis buffers for one subscriber connection before it drops.
MaxBacklog == 1
\* Largest number of hashes one get_new_entries() call returns.
MaxEntries == 2
\* Largest number of ids that failed inserts take from the id sequence.
MaxBurn == 1

\* ------------------------------------------------------ program constants
ARBITRUM_SEPOLIA_PUBLIC_RPCS ==
    << "https://sepolia-rollup.arbitrum.io/rpc",
       "https://arbitrum-sepolia.public.blastapi.io",
       "https://endpoints.omniatech.io/v1/arbitrum/sepolia/public" >>

ARBITRUM_SEPOLIA_WS ==
    << "wss://arbitrum-sepolia.public.blastapi.io",
       "wss://endpoints.omniatech.io/v1/arbitrum/sepolia/public/ws" >>

\* The order in which one run of listen_blocks can attempt the endpoints.
AllEndpoints == ARBITRUM_SEPOLIA_WS \o ARBITRUM_SEPOLIA_PUBLIC_RPCS

Range(seq) == { seq[i] : i \in DOMAIN seq }

Heights == 1..MaxHeight
Subs == 1..NumSubs

\* Python's None and a present value.
None == << >>
Some(v) == << v >>

VARIABLES
    pc,             \* position of the listen_blocks task
    idx,            \* index of the for loop over the current endpoint list
    last_block,     \* fallback_http_listener: last_block
    start_block,    \* history: the height the endpoint reported when the
                    \* polling session began
    current_block,  \* fallback_http_listener: current_block
    block_num,      \* fallback_http_listener: block_num of the range loop
    entries,        \* listen_blocks: the part of new_blocks not yet processed
    store,          \* rows of table block_headers
    nextId,         \* next value of the id sequence of block_headers
    published,      \* every message published on channel 'blocks', in order
    subs,           \* the /ws/blocks handlers and their pubsub connections
    attempts,       \* endpoints this run attempted, in order
    failed,         \* endpoints whose attempt ended in an exception
    calls,          \* heights passed to store_block in the current tick
    skipped,        \* heights of the current tick whose get_block raised
    lastCall        \* the most recent store_block call of the current tick

vars == << pc, idx, last_block, start_block, current_block, block_num, entries,
          store, nextId, published, subs, attempts, failed, calls, skipped,
          lastCall >>

listenerVars == << pc, idx, last_block, start_block, current_block, block_num,
                   entries, attempts, failed >>
tickVars == << calls, skipped, lastCall >>
dbVars == << store, nextId >>
redisVars == << published, subs >>

NoCall == [ height |-> 0, outcome |-> "none", present |-> FALSE ]

\* ------------------------------------------------------------- the chain
HexDigits == << "0", "1", "2", "3", "4", "5", "6", "7",
                "8", "9", "a", "b", "c", "d", "e", "f" >>

\* The block at height h as an endpoint returns it from get_block.
BlockAt(h) ==
    [ number       |-> h,
      timestamp    |-> Some(1700000000 + 12 * h),
      hash         |-> << (7 * h) % 16, (3 * h + 10) % 16 >>,
      transactions |-> Some([ i \in 1..(h % 3) |-> 100 * h + i ]) ]

\* What get_block can return for height h: the block, or the block with its
\* timestamp or its transaction list missing.
Responses(h) ==
    { BlockAt(h),
      [ BlockAt(h) EXCEPT !.timestamp = None ],
      [ BlockAt(h) EXCEPT !.transactions = None ] }

\* ------------------------------------------------------------ store_block
\* datetime.fromtimestamp(timestamp, tz=timezone.utc)
unix_timestamp_to_datetime(timestamp) ==
    [ epoch |-> timestamp, tzinfo |-> "UTC" ]

\* datetime.isoformat() of an aware UTC datetime.
isoformat(dt) == << "iso8601", dt.epoch, "+00:00" >>

\* block_hash.hex()
hex(block_hash) == [ i \in DOMAIN block_hash |-> HexDigits[block_hash[i] + 1] ]

\* Column names of models.BlockHeader.__table__.
get_model_fields == { "id", "block_number", "timestamp" }

\* The dict built from the block, as the ordered list of its items.
block_data_dict(block_number, block_hash, block_data) ==
    << << "block_number", block_number >>,
       << "timestamp",
          isoformat(unix_timestamp_to_datetime(block_data.timestamp[1])) >>,
       << "hash", hex(block_hash) >>,
       << "transaction_count",
          IF block_data.transactions # None /\ block_data.transactions[1] # << >>
          THEN Len(block_data.transactions[1]) ELSE 0 >> >>

IsModelField(item) == item[1] \in get_model_fields

\* {k: v for k, v in block_data_dict.items() if k in model_fields}
valid_data(block_number, block_hash, block_data) ==
    SelectSeq(block_data_dict(block_number, block_hash, block_data), IsModelField)

Keys(d) == { d[i][1] : i \in DOMAIN d }
Get(d, k) == d[CHOOSE i \in DOMAIN d : d[i][1] = k][2]

\* json.dumps(d): the JSON object text, its members in the dict's order.
json_dumps(d) == [ json |-> d ]

\* The DateTime(timezone=True) column keeps the instant of the text it is given.
to_timestamptz(text) == [ epoch |-> text[2], tzinfo |-> "UTC" ]

\* models.BlockHeader(**valid_data), with the id the database assigns.
BlockHeader(d, id) ==
    [ id           |-> id,
      block_number |-> Get(d, "block_number"),
      timestamp    |-> to_timestamptz(Get(d, "timestamp")) ]

\* session.get(models.BlockHeader, ident): the rows whose PRIMARY KEY is ident.
session_get(rows, ident) == { r \in rows : r.id = ident }

\* block_number declared without unique=True: no insert violates anything.
UniqueViolation_off(rows, row) == FALSE

\* unique=True on block_number: the insert of row violates the constraint.
UniqueViolation(rows, row) ==
    \E r \in rows : r.block_number = row.block_number

\* Ids the sequence handed out to inserts that failed.
Burnt == nextId - 1 - Cardinality(store)

StoredHeights == { r.block_number : r \in store }
PublishedHeights == { Get(published[i].json, "block_number") : i \in DOMAIN published }

\* What goes wrong during one store_block call: nothing, or the first call
\* that raises.  A failed commit may already have drawn its id from the
\* sequence of block_headers.
Env == { "none", "get", "commit", "commit_after_nextval", "publish" }

\* The path one store_block call takes.
Outcome(block_number, block_hash, block_data, e) ==
    IF e = "get" THEN "get_failed"
    ELSE IF session_get(store, block_number) # {} THEN "exists"
    ELSE IF block_data.timestamp = None THEN "normalise_failed"
    ELSE IF \/ e \in { "commit", "commit_after_nextval" }
            \/ UniqueViolation(store,
                   BlockHeader(valid_data(block_number, block_hash, block_data), nextId))
         THEN "commit_failed"
    ELSE IF e = "publish" THEN "publish_failed"
    ELSE "stored"

IsData(message) == message.type = "message"

\* The data messages Redis holds for subscriber s, not yet read by its handler.
Backlog(s) == Len(SelectSeq(subs[s].inbox, IsData))

\* A publish that waits until every current subscriber has room for the message.
Publish_blocking(data) ==
    /\ \A s \in Subs : subs[s].pc = "listening" => Backlog(s) < MaxBacklog
    /\ published' = Append(published, data)
    /\ subs' = [ s \in Subs |->
                   IF subs[s].pc = "listening"
                   THEN [ subs[s] EXCEPT
                            !.inbox = Append(@, [ type |-> "message", data |-> data ]) ]
                   ELSE subs[s] ]

\* redis.publish("blocks", data): Redis appends the message to the connection
\* of every current subscriber that has room, and replies to the publisher.
Publish(data) ==
    /\ published' = Append(published, data)
    /\ subs' = [ s \in Subs |->
                   IF subs[s].pc = "listening" /\ Backlog(s) < MaxBacklog
                   THEN [ subs[s] EXCEPT
                            !.inbox = Append(@, [ type |-> "message", data |-> data ]) ]
                   ELSE subs[s] ]

\* A store_block that announces the block before it looks for the record: a
\* call that finds the record already there publishes it again.
store_block_republish(block_number, block_hash, block_data, e) ==
    LET o == Outcome(block_number, block_hash, block_data, e)
        d == valid_data(block_number, block_hash, block_data)
    IN  /\ lastCall' = [ height  |-> block_number,
                          outcome |-> o,
                          present |-> block_number \in StoredHeights ]
        /\ calls' = Append(calls, block_number)
        /\ CASE o = "stored" ->
                  /\ store' = store \cup { BlockHeader(d, nextId) }
                  /\ nextId' = nextId + 1
                  /\ Publish(json_dumps(d))
             [] o = "publish_failed" ->
                  /\ store' = store \cup { BlockHeader(d, nextId) }
                  /\ nextId' = nextId + 1
                  /\ UNCHANGED redisVars
             [] o = "commit_failed" ->
                  /\ nextId' = IF e # "commit" /\ Burnt < MaxBurn
                                THEN nextId + 1 ELSE nextId
                  /\ UNCHANGED << store, published, subs >>
             [] o = "exists" /\ block_data.timestamp # None ->
                  /\ Publish(json_dumps(d))
                  /\ UNCHANGED << store, nextId >>
             [] OTHER ->
                  UNCHANGED << store, nextId, published, subs >>

\* A store_block that merges the block into the record session.get found
\* instead of returning: the record's height and timestamp are overwritten.
store_block_merge(block_number, block_hash, block_data, e) ==
    LET o == Outcome(block_number, block_hash, block_data, e)
        d == valid_data(block_number, block_hash, block_data)
    IN  /\ lastCall' = [ height  |-> block_number,
                          outcome |-> o,
                          present |-> block_number \in StoredHeights ]
        /\ calls' = Append(calls, block_number)
        /\ CASE o = "stored" ->
                  /\ store' = store \cup { BlockHeader(d, nextId) }
                  /\ nextId' = nextId + 1
                  /\ Publish(json_dumps(d))
             [] o = "publish_failed" ->
                  /\ store' = store \cup { BlockHeader(d, nextId) }
                  /\ nextId' = nextId + 1
                  /\ UNCHANGED redisVars
             [] o = "commit_failed" ->
                  /\ nextId' = IF e # "commit" /\ Burnt < MaxBurn
                                THEN nextId + 1 ELSE nextId
                  /\ UNCHANGED << store, published, subs >>
             [] /\ o = "exists"
                /\ block_data.timestamp # None
                /\ block_number \notin StoredHeights ->
                  /\ store' = (store \ session_get(store, block_number))
                                \cup { BlockHeader(d, block_number) }
                  /\ UNCHANGED << nextId, published, subs >>
             [] OTHER ->
                  UNCHANGED << store, nextId, published, subs >>

\* A store_block that publishes before it commits: when the publish fails
\* the rollback discards the insert.
store_block_publish_in_transaction(block_number, block_hash, block_data, e) ==
    LET o == Outcome(block_number, block_hash, block_data, e)
        d == valid_data(block_number, block_hash, block_data)
    IN  /\ lastCall' = [ height  |-> block_number,
                          outcome |-> o,
                          present |-> block_number \in StoredHeights ]
        /\ calls' = Append(calls, block_number)
        /\ CASE o = "stored" ->
                  /\ store' = store \cup { BlockHeader(d, nextId) }
                  /\ nextId' = nextId + 1
                  /\ Publish(json_dumps(d))
             [] o = "publish_failed" ->
                  /\ nextId' = IF Burnt < MaxBurn THEN nextId + 1 ELSE nextId
                  /\ UNCHANGED << store, published, subs >>
             [] o = "commit_failed" ->
                  /\ nextId' = IF e # "commit" /\ Burnt < MaxBurn
                                THEN nextId + 1 ELSE nextId
                  /\ UNCHANGED << store, published, subs >>
             [] OTHER ->
                  UNCHANGED << store, nextId, published, subs >>

store_block(block_number, block_hash, block_data, e) ==
    LET o == Outcome(block_number, block_hash, block_data, e)
        d == valid_data(block_number, block_hash, block_data)
    IN  /\ lastCall' = [ height  |-> block_number,
                          outcome |-> o,
                          present |-> block_number \in StoredHeights ]
        /\ calls' = Append(calls, block_number)
        /\ CASE o = "stored" ->
                  /\ store' = store \cup { BlockHeader(d, nextId) }
                  /\ nextId' = nextId + 1
                  /\ Publish(json_dumps(d))
             [] o = "publish_failed" ->
                  /\ store' = store \cup { BlockHeader(d, nextId) }
                  /\ nextId' = nextId + 1
                  /\ UNCHANGED redisVars
             [] o = "commit_failed" ->
                  /\ nextId' = IF e # "commit" /\ Burnt < MaxBurn
                                THEN nextId + 1 ELSE nextId
                  /\ UNCHANGED << store, published, subs >>
             [] OTHER ->
                  UNCHANGED << store, nextId, published, subs >>

\* ------------------------------------------------------------ the listener
\* A loop that starts over from the first endpoint after a failure.
AfterWs_restart(i) == [ pc |-> "ws_connect", idx |-> 1 ]

\* Where the for loop over ARBITRUM_SEPOLIA_WS goes after endpoint i.
AfterWs(i) ==
    IF i < Len(ARBITRUM_SEPOLIA_WS)
    THEN [ pc |-> "ws_connect", idx |-> i + 1 ]
    ELSE [ pc |-> "http_connect", idx |-> 1 ]

\* A loop whose except clause lets the endpoint's failure out of the function.
AfterHttp_reraise(i) == [ pc |-> "raised", idx |-> i ]

\* Where the for loop over ARBITRUM_SEPOLIA_PUBLIC_RPCS goes after endpoint i.
AfterHttp(i) ==
    IF i < Len(ARBITRUM_SEPOLIA_PUBLIC_RPCS)
    THEN [ pc |-> "http_connect", idx |-> i + 1 ]
    ELSE [ pc |-> "raised", idx |-> i ]

Goto(next) ==
    /\ pc' = next.pc
    /\ idx' = next.idx

ResetTick ==
    /\ calls' = << >>
    /\ skipped' = {}
    /\ lastCall' = NoCall

\* provider.connect() and eth.filter("latest") on ARBITRUM_SEPOLIA_WS[idx].
WsConnect ==
    /\ pc = "ws_connect"
    /\ attempts' = Append(attempts, ARBITRUM_SEPOLIA_WS[idx])
    /\ \E ok \in BOOLEAN :
         IF ok
         THEN /\ pc' = "ws_poll"
              /\ UNCHANGED << idx, failed >>
         ELSE /\ failed' = failed \cup { ARBITRUM_SEPOLIA_WS[idx] }
              /\ Goto(AfterWs(idx))
    /\ UNCHANGED << last_block, start_block, current_block, block_num, entries >>
    /\ UNCHANGED << dbVars, redisVars, tickVars >>

EntrySeqs ==
    UNION { [ 1..n -> Heights ] : n \in 0..MaxEntries }

\* block_filter.get_new_entries()
WsPoll ==
    /\ pc = "ws_poll"
    /\ \E ok \in BOOLEAN :
         IF ok
         THEN /\ \E new_blocks \in EntrySeqs :
                   /\ entries' = new_blocks
                   /\ pc' = IF new_blocks = << >> THEN "ws_end" ELSE "ws_block"
              /\ UNCHANGED << idx, failed >>
         ELSE /\ failed' = failed \cup { ARBITRUM_SEPOLIA_WS[idx] }
              /\ Goto(AfterWs(idx))
              /\ UNCHANGED entries
    /\ UNCHANGED << last_block, start_block, current_block, block_num, attempts >>
    /\ UNCHANGED << dbVars, redisVars, tickVars >>

\* An iteration around a store_block that lets its failures out: they reach
\* the except clause of the while loop, which gives the endpoint up.
WsBlock_store_raises ==
    /\ pc = "ws_block"
    /\ \E ok \in BOOLEAN :
         IF ok
         THEN /\ \E block_data \in Responses(Head(entries)), e \in Env :
                   /\ store_block(block_data.number, block_data.hash, block_data, e)
                   /\ IF Outcome(block_data.number, block_data.hash, block_data, e)
                           \in { "stored", "exists" }
                      THEN /\ entries' = Tail(entries)
                           /\ pc' = IF Tail(entries) = << >>
                                    THEN "ws_end" ELSE "ws_block"
                           /\ UNCHANGED << idx, failed >>
                      ELSE /\ failed' = failed \cup { ARBITRUM_SEPOLIA_WS[idx] }
                           /\ Goto(AfterWs(idx))
                           /\ entries' = << >>
              /\ UNCHANGED skipped
         ELSE /\ failed' = failed \cup { ARBITRUM_SEPOLIA_WS[idx] }
              /\ Goto(AfterWs(idx))
              /\ entries' = << >>
              /\ ResetTick
              /\ UNCHANGED << dbVars, redisVars >>
    /\ UNCHANGED << last_block, start_block, current_block, block_num, attempts >>

\* One iteration of 'for block_hash in new_blocks'.
WsBlock ==
    /\ pc = "ws_block"
    /\ \E ok \in BOOLEAN :
         IF ok
         THEN /\ \E block_data \in Responses(Head(entries)), e \in Env :
                   store_block(block_data.number, block_data.hash, block_data, e)
              /\ entries' = Tail(entries)
              /\ pc' = IF Tail(entries) = << >> THEN "ws_end" ELSE "ws_block"
              /\ UNCHANGED << idx, failed, skipped >>
         ELSE /\ failed' = failed \cup { ARBITRUM_SEPOLIA_WS[idx] }
              /\ Goto(AfterWs(idx))
              /\ entries' = << >>
              /\ ResetTick
              /\ UNCHANGED << dbVars, redisVars >>
    /\ UNCHANGED << last_block, start_block, current_block, block_num, attempts >>

\* asyncio.sleep(1) at the end of one pass of the while loop.
WsEndTick ==
    /\ pc = "ws_end"
    /\ pc' = "ws_poll"
    /\ ResetTick
    /\ UNCHANGED << idx, last_block, start_block, current_block, block_num, entries,
                    attempts, failed >>
    /\ UNCHANGED << dbVars, redisVars >>

\* A session that resumes from the highest stored height instead of the
\* height the endpoint reports.
HttpConnect_resume ==
    /\ pc = "http_connect"
    /\ attempts' = Append(attempts, ARBITRUM_SEPOLIA_PUBLIC_RPCS[idx])
    /\ \E ok \in BOOLEAN :
         IF ok
         THEN /\ \E height \in 0..MaxHeight :
                   /\ last_block' =
                        CHOOSE m \in StoredHeights \cup { 0 } :
                            \A h \in StoredHeights : h <= m
                   /\ start_block' = height
              /\ pc' = "http_poll"
              /\ UNCHANGED << idx, failed >>
         ELSE /\ failed' = failed \cup { ARBITRUM_SEPOLIA_PUBLIC_RPCS[idx] }
              /\ Goto(AfterHttp(idx))
              /\ UNCHANGED << last_block, start_block >>
    /\ UNCHANGED << current_block, block_num, entries >>
    /\ UNCHANGED << dbVars, redisVars, tickVars >>

\* 'last_block = await w3.eth.block_number' on ARBITRUM_SEPOLIA_PUBLIC_RPCS[idx].
HttpConnect ==
    /\ pc = "http_connect"
    /\ attempts' = Append(attempts, ARBITRUM_SEPOLIA_PUBLIC_RPCS[idx])
    /\ \E ok \in BOOLEAN :
         IF ok
         THEN /\ \E height \in 0..MaxHeight :
                   /\ last_block' = height
                   /\ start_block' = height
              /\ pc' = "http_poll"
              /\ UNCHANGED << idx, failed >>
         ELSE /\ failed' = failed \cup { ARBITRUM_SEPOLIA_PUBLIC_RPCS[idx] }
              /\ Goto(AfterHttp(idx))
              /\ UNCHANGED << last_block, start_block >>
    /\ UNCHANGED << current_block, block_num, entries >>
    /\ UNCHANGED << dbVars, redisVars, tickVars >>

\* range(last_block, current_block + 1): the range starts one height early.
range_first_inclusive(last) == last

\* First value of range(last_block + 1, current_block + 1).
range_first(last) == last + 1

\* 'current_block = await w3.eth.block_number' and the test against last_block.
\* current_block is read again before its next use, so it is kept only while
\* the range is processed.
HttpPoll ==
    /\ pc = "http_poll"
    /\ \E ok \in BOOLEAN :
         IF ok
         THEN /\ \E height \in 0..MaxHeight :
                   IF height > last_block
                   THEN /\ current_block' = height
                        /\ block_num' = range_first(last_block)
                        /\ pc' = "http_range"
                   ELSE UNCHANGED << current_block, block_num, pc >>
              /\ UNCHANGED << idx, failed, last_block, start_block >>
         ELSE /\ failed' = failed \cup { ARBITRUM_SEPOLIA_PUBLIC_RPCS[idx] }
              /\ Goto(AfterHttp(idx))
              /\ last_block' = 0
              /\ start_block' = 0
              /\ UNCHANGED << current_block, block_num >>
    /\ UNCHANGED << entries, attempts >>
    /\ UNCHANGED << dbVars, redisVars, tickVars >>

\* An iteration without the try around get_block: a failed fetch is caught by
\* the except clause of the polling loop, which gives the endpoint up.
HttpBlock_fatal ==
    /\ pc = "http_range"
    /\ \E ok \in BOOLEAN :
         IF ok
         THEN /\ \E block_data \in Responses(block_num), e \in Env :
                   store_block(block_num, block_data.hash, block_data, e)
              /\ UNCHANGED << skipped, idx, failed >>
              /\ IF block_num < current_block
                 THEN /\ block_num' = block_num + 1
                      /\ UNCHANGED pc
                 ELSE /\ pc' = "http_end"
                      /\ UNCHANGED block_num
         ELSE /\ skipped' = skipped \cup { block_num }
              /\ failed' = failed \cup { ARBITRUM_SEPOLIA_PUBLIC_RPCS[idx] }
              /\ Goto(AfterHttp(idx))
              /\ UNCHANGED << block_num, calls, lastCall, dbVars, redisVars >>
    /\ UNCHANGED << last_block, start_block, current_block, entries, attempts >>

\* One iteration of 'for block_num in range(last_block + 1, current_block + 1)'.
HttpBlock ==
    /\ pc = "http_range"
    /\ \E ok \in BOOLEAN :
         IF ok
         THEN /\ \E block_data \in Responses(block_num), e \in Env :
                   store_block(block_num, block_data.hash, block_data, e)
              /\ UNCHANGED skipped
         ELSE /\ skipped' = skipped \cup { block_num }
              /\ UNCHANGED << calls, lastCall, dbVars, redisVars >>
    /\ IF block_num < current_block
       THEN /\ block_num' = block_num + 1
            /\ UNCHANGED pc
       ELSE /\ pc' = "http_end"
            /\ UNCHANGED block_num
    /\ UNCHANGED << idx, last_block, start_block, current_block, entries,
                    attempts, failed >>

\* An end of tick that keeps last_block below the first height whose fetch
\* failed, so that the next tick asks for it again.
HttpEndTick_retry ==
    /\ pc = "http_end"
    /\ last_block' = IF skipped = {} THEN current_block
                     ELSE (CHOOSE h \in skipped : \A g \in skipped : h <= g) - 1
    /\ UNCHANGED start_block
    /\ current_block' = 0
    /\ block_num' = 0
    /\ pc' = "http_poll"
    /\ ResetTick
    /\ UNCHANGED << idx, entries, attempts, failed >>
    /\ UNCHANGED << dbVars, redisVars >>

\* 'last_block = current_block' and asyncio.sleep(12).
HttpEndTick ==
    /\ pc = "http_end"
    /\ last_block' = current_block
    /\ UNCHANGED start_block
    /\ current_block' = 0
    /\ block_num' = 0
    /\ pc' = "http_poll"
    /\ ResetTick
    /\ UNCHANGED << idx, entries, attempts, failed >>
    /\ UNCHANGED << dbVars, redisVars >>

Listener ==
    \/ WsConnect
    \/ WsPoll
    \/ WsBlock
    \/ WsEndTick
    \/ HttpConnect
    \/ HttpPoll
    \/ HttpBlock
    \/ HttpEndTick

\* ------------------------------------------------------------- /ws/blocks
NoSub == [ pc |-> "none", open |-> FALSE, inbox |-> << >>, sent |-> << >> ]

\* websocket.accept(), get_redis(), redis.pubsub() and pubsub.subscribe("blocks");
\* Redis answers the subscription with a message of type 'subscribe'.  When
\* Redis cannot be reached the handler ends before its try block.
\* A subscription that replays the messages published before it.
ws_blocks_subscribe_replay(s) ==
    /\ subs[s].pc = "none"
    /\ \E ok \in BOOLEAN :
         subs' = [ subs EXCEPT ![s] =
                     IF ok
                     THEN [ @ EXCEPT !.pc = "listening",
                                     !.open = TRUE,
                                     !.inbox = << [ type |-> "subscribe",
                                                    data |-> [ json |-> << >> ] ] >>
                                               \o [ i \in DOMAIN published |->
                                                      [ type |-> "message",
                                                        data |-> published[i] ] ] ]
                     ELSE [ @ EXCEPT !.pc = "closed" ] ]
    /\ UNCHANGED << listenerVars, dbVars, published, tickVars >>

ws_blocks_subscribe(s) ==
    /\ subs[s].pc = "none"
    /\ \E ok \in BOOLEAN :
         subs' = [ subs EXCEPT ![s] =
                     IF ok
                     THEN [ @ EXCEPT !.pc = "listening",
                                     !.open = TRUE,
                                     !.inbox = << [ type |-> "subscribe",
                                                    data |-> [ json |-> << >> ] ] >> ]
                     ELSE [ @ EXCEPT !.pc = "closed" ] ]
    /\ UNCHANGED << listenerVars, dbVars, published, tickVars >>

\* One pass of 'async for message in pubsub.listen()'; when send_text raises
\* the finally block unsubscribes and closes.
ws_blocks_forward(s) ==
    /\ subs[s].pc = "listening"
    /\ subs[s].inbox # << >>
    /\ LET message == Head(subs[s].inbox)
       IN  subs' = [ subs EXCEPT ![s] =
                       IF message.type # "message"
                       THEN [ @ EXCEPT !.inbox = Tail(@) ]
                       ELSE IF subs[s].open
                       THEN [ @ EXCEPT !.inbox = Tail(@),
                                       !.sent = Append(@, message.data) ]
                       ELSE [ @ EXCEPT !.pc = "closed", !.inbox = << >>,
                                       !.sent = << >> ] ]
    /\ UNCHANGED << listenerVars, dbVars, published, tickVars >>

\* The client goes away.
client_disconnect(s) ==
    /\ subs[s].pc = "listening"
    /\ subs[s].open
    /\ subs' = [ subs EXCEPT ![s] = [ @ EXCEPT !.open = FALSE ] ]
    /\ UNCHANGED << listenerVars, dbVars, published, tickVars >>

Subscriber ==
    \E s \in Subs :
        \/ ws_blocks_subscribe(s)
        \/ ws_blocks_forward(s)
        \/ client_disconnect(s)

\* ---------------------------------------------------------------- /blocks
\* .limit(10)
limit == 10

\* order_by(models.BlockHeader.id.desc())
RECURSIVE order_by_id_desc(_)
order_by_id_desc(rows) ==
    IF rows = {} THEN << >>
    ELSE LET first == CHOOSE r \in rows : \A q \in rows : q.id <= r.id
         IN  << first >> \o order_by_id_desc(rows \ { first })

\* The list get_blocks returns for the table rows.
get_blocks_response(rows) ==
    LET blocks == order_by_id_desc(rows)
        n == IF Len(blocks) < limit THEN Len(blocks) ELSE limit
    IN  [ i \in 1..n |-> [ id           |-> blocks[i].id,
                           block_number |-> blocks[i].block_number,
                           timestamp    |-> blocks[i].timestamp ] ]

\* GET /blocks: the handler runs one select and changes nothing.
get_blocks ==
    /\ get_blocks_response(store) \in Seq(store)
    /\ UNCHANGED vars

\* ------------------------------------------------------- the specification
\* startup_event has created the listen_blocks task; the table is empty.
Init ==
    /\ pc = "ws_connect"
    /\ idx = 1
    /\ last_block = 0
    /\ start_block = 0
    /\ current_block = 0
    /\ block_num = 0
    /\ entries = << >>
    /\ store = {}
    /\ nextId = 1
    /\ published = << >>
    /\ subs = [ s \in Subs |-> NoSub ]
    /\ attempts = << >>
    /\ failed = {}
    /\ calls = << >>
    /\ skipped = {}
    /\ lastCall = NoCall

Next ==
    \/ Listener
    \/ Subscriber
    \/ get_blocks

Spec == Init /\ [][Next]_vars

\* The event loop runs the listener task whenever it can take a step.
FairSpec == Spec /\ WF_vars(Listener)

\* The event loop also runs every /ws/blocks handler that has a message to
\* take from pubsub.listen().
FairHandlersSpec ==
    /\ Spec
    /\ WF_vars(Listener)
    /\ \A s \in Subs : WF_vars(ws_blocks_forward(s))

\* ------------------------------------------------------------------ claims
RecordsFor(h) == { r \in store : r.block_number = h }

\* C1: block_headers holds at most one record for each block_number in every
\* reachable state, and once a height is stored every later step, a repeated
\* store_block call for that height included, leaves exactly one record for it.
C1_OneRecordPerHeight ==
    /\ [](\A r \in store : Cardinality(RecordsFor(r.block_number)) = 1)
    /\ [][ \A h \in StoredHeights :
             Cardinality({ r \in store' : r.block_number = h }) = 1 ]_vars

\* store_block has been called for a height that was already stored.
C1_Witness ==
    /\ lastCall.outcome \in { "exists", "commit_failed" }
    /\ lastCall.present
    /\ Cardinality(RecordsFor(lastCall.height)) = 1

\* C2: a store_block call that reached the existence check returns early as
\* 'already exists' if and only if the store held a record with that
\* block_number when it was called.
C2_ExistenceCheckByHeight ==
    lastCall.outcome \notin { "none", "get_failed" }
        => (lastCall.outcome = "exists" <=> lastCall.present)

\* C3: every committed record has been published on 'blocks' by the time its
\* store_block call has returned.
C3_CommittedIsPublished ==
    StoredHeights \subseteq PublishedHeights

TransactionCount(h) ==
    IF BlockAt(h).transactions # None THEN Len(BlockAt(h).transactions[1]) ELSE 0

MessageIsFull(data) ==
    /\ Keys(data.json) = { "block_number", "timestamp", "hash", "transaction_count" }
    /\ Get(data.json, "block_number") \in StoredHeights
    /\ Get(data.json, "transaction_count")
           = TransactionCount(Get(data.json, "block_number"))

\* C4: every message published for a freshly stored block, and every message a
\* subscriber received, has the keys block_number, timestamp, hash and
\* transaction_count, with the block's height and its number of transactions.
C4_MessageShape ==
    /\ \A i \in DOMAIN published : MessageIsFull(published[i])
    /\ \A s \in Subs : \A i \in DOMAIN subs[s].sent : MessageIsFull(subs[s].sent[i])

\* C5: no step commits a record whose height is below the highest height
\* already in the store.
C5_NoRegression ==
    [][ \A r \in store' \ store : \A q \in store :
          r.block_number > q.block_number ]_vars

IsAscending(seq) ==
    \A i, j \in DOMAIN seq : i < j => seq[i] < seq[j]

\* The data a subscriber's connection has carried: what its handler sent on,
\* then what Redis still holds for it.
Received(s) ==
    LET waiting == SelectSeq(subs[s].inbox, IsData)
    IN  subs[s].sent \o [ i \in DOMAIN waiting |-> waiting[i].data ]

PositionIn(seq, x) == CHOOSE i \in DOMAIN seq : seq[i] = x

InPublishOrder(seq) ==
    /\ \A i \in DOMAIN seq : seq[i] \in Range(published)
    /\ \A i, j \in DOMAIN seq :
         i < j => PositionIn(published, seq[i]) < PositionIn(published, seq[j])

\* The heights of the current polling tick that have been dealt with.
TickDone ==
    IF pc = "http_end" THEN (last_block + 1)..current_block
    ELSE (last_block + 1)..(block_num - 1)

\* C6: in a polling tick from L to C, the heights passed to store_block are
\* those of L+1..C whose fetch succeeded, in ascending order; a record
\* committed in the tick is the one of the height being processed and gets
\* the highest id, its message goes last on the channel, and every subscriber
\* is handed the messages in the order of the channel.
C6_PollingOrder ==
    /\ [](pc \in { "http_range", "http_end" } =>
            /\ IsAscending(calls)
            /\ Range(calls) \cup skipped = TickDone
            /\ Range(calls) \cap skipped = {})
    /\ [](\A s \in Subs : InPublishOrder(Received(s)))
    /\ [][ pc = "http_range" =>
             /\ \A r \in store' \ store :
                  /\ r.block_number = block_num
                  /\ \A q \in store : q.id < r.id
                  /\ \A h \in Range(calls) : h < r.block_number
             /\ published' # published =>
                  /\ Len(published') = Len(published) + 1
                  /\ SubSeq(published', 1, Len(published)) = published
                  /\ Get(published'[Len(published')].json, "block_number") = block_num
           ]_vars

\* A tick from 0 to 2 has stored and published both heights and a subscriber's
\* client has received both.
C6_Witness ==
    /\ pc = "http_end"
    /\ last_block = 0
    /\ calls = << 1, 2 >>
    /\ Len(published) = 2
    /\ \E s \in Subs : subs[s].sent = published

\* C7: the endpoints attempted in one run are a prefix of the WebSocket list
\* followed by the HTTP list, every attempt but the latest has failed, and no
\* HTTP endpoint is attempted unless every WebSocket endpoint has failed.
C7_FixedOrder ==
    /\ Len(attempts) <= Len(AllEndpoints)
    /\ \A i \in DOMAIN attempts : attempts[i] = AllEndpoints[i]
    /\ \A i \in DOMAIN attempts : i < Len(attempts) => attempts[i] \in failed
    /\ \A i \in DOMAIN attempts :
         attempts[i] \in Range(ARBITRUM_SEPOLIA_PUBLIC_RPCS)
            => Range(ARBITRUM_SEPOLIA_WS) \subseteq failed

\* The last HTTP endpoint is in session after the sessions of all others
\* ended, one of them after storing a block.
C7_Witness ==
    /\ pc = "http_poll"
    /\ attempts = AllEndpoints
    /\ Cardinality(failed) = Len(AllEndpoints) - 1
    /\ store # {}

\* C8: listen_blocks has raised exactly when every WebSocket and every HTTP
\* endpoint has been attempted and has failed in this run.
C8_OnlyPoolExhaustion ==
    /\ pc = "raised" <=> failed = Range(AllEndpoints)
    /\ pc = "raised" => attempts = AllEndpoints

\* The run has ended after at least one session stored a block.
C8_Witness ==
    /\ pc = "raised"
    /\ store # {}

\* C9: after a run that ended with every endpoint failed, a new run
\* eventually begins at the first WebSocket endpoint.
C9_RestartAfterExhaustion ==
    (pc = "raised") ~> (pc = "ws_connect" /\ idx = 1)

\* The step of the listener that commits a block and publishes it.
StoreAndPublish ==
    /\ HttpBlock \/ WsBlock
    /\ lastCall'.outcome = "stored"
    /\ Len(published') = Len(published) + 1

\* The listener is about to process a block that the store can take.
FreshBlockPending ==
    \/ /\ pc = "http_range"
       /\ block_num \notin StoredHeights
       /\ session_get(store, block_num) = {}
    \/ /\ pc = "ws_block"
       /\ Head(entries) \notin StoredHeights
       /\ session_get(store, Head(entries)) = {}

\* C10: whatever the backlog and the connection state of the subscribers, the
\* listener can commit and publish the block it is about to process.
C10_NonBlockingFanOut ==
    FreshBlockPending => ENABLED StoreAndPublish

\* A block is pending while a subscriber whose client is gone holds a full
\* backlog that nobody reads, so that it will miss the block's message.
C10_Witness ==
    /\ FreshBlockPending
    /\ \E s \in Subs :
         /\ subs[s].pc = "listening"
         /\ ~subs[s].open
         /\ Backlog(s) = MaxBacklog
         /\ Len(Received(s)) = Len(published)


\* C11: a subscriber whose client has disconnected is eventually unsubscribed
\* from the 'blocks' channel and its handler closed.
C11_DisconnectReleases ==
    \A s \in Subs :
        (subs[s].pc = "listening" /\ ~subs[s].open) ~> (subs[s].pc = "closed")

\* C12: the data a subscriber's connection carries grows only by the message
\* of a publish made while the subscriber is subscribed; subscribing itself
\* delivers nothing that was published before.
C12_NoReplay ==
    [][ \A s \in Subs :
          \/ Received(s)' = Received(s)
          \/ /\ subs'[s].pc = "closed"
             /\ Received(s)' = << >>
          \/ /\ subs[s].pc = "listening"
             /\ Len(published') = Len(published) + 1
             /\ Received(s)' = Append(Received(s), published'[Len(published')]) ]_vars

\* A subscriber that subscribed after the first publish has the second
\* message and not the first.
C12_Witness ==
    \E s \in Subs :
        /\ subs[s].pc = "listening"
        /\ Len(published) = 2
        /\ Received(s) = << published[2] >>

\* C13: a failed fetch of one height of a polling tick only adds that height
\* to the skipped ones: the listener goes on with the next height of the
\* range on the same endpoint, at the end of the range every height that was
\* not skipped has been passed to store_block, and the tick is followed by
\* the next poll of the same endpoint.
C13_FetchFailureSkipsOneHeight ==
    /\ [][ skipped' # skipped /\ skipped' # {} =>
             /\ pc = "http_range"
             /\ skipped' = skipped \cup { block_num }
             /\ calls' = calls
             /\ store' = store /\ published' = published
             /\ idx' = idx /\ failed' = failed
             /\ last_block' = last_block /\ current_block' = current_block
             /\ IF block_num < current_block
                THEN pc' = "http_range" /\ block_num' = block_num + 1
                ELSE pc' = "http_end" ]_vars
    /\ [](pc = "http_end" =>
            Range(calls) = ((last_block + 1)..current_block) \ skipped)
    /\ [][ pc = "http_end" /\ pc' # pc =>
             /\ pc' = "http_poll"
             /\ idx' = idx /\ failed' = failed ]_vars

\* A tick over the heights 1..2 in which the fetch of height 1 failed and
\* height 2 was passed to store_block.
C13_Witness ==
    /\ pc = "http_end"
    /\ skipped = { 1 }
    /\ calls = << 2 >>

\* A step of the listener that makes one store_block call.
IsStoreBlockCall == Len(calls') = Len(calls) + 1

\* C14: a store_block call that fails while normalising the block or while
\* inserting it leaves the store, the channel and the subscribers as they
\* were, and the listener goes on with the next block of the same session on
\* the same endpoint.
C14_StoreFailureIsContained ==
    [][ /\ IsStoreBlockCall
        /\ lastCall'.outcome \in { "normalise_failed", "commit_failed" }
        => /\ store' = store
           /\ published' = published
           /\ subs' = subs
           /\ idx' = idx /\ failed' = failed
           /\ pc = "ws_block" =>
                /\ entries' = Tail(entries)
                /\ pc' = IF entries' = << >> THEN "ws_end" ELSE "ws_block"
           /\ pc = "http_range" =>
                IF block_num < current_block
                THEN pc' = "http_range" /\ block_num' = block_num + 1
                ELSE pc' = "http_end" ]_vars

\* The insert of a height failed, the height has no record, and the WebSocket
\* session goes on with its next block.
C14_Witness ==
    /\ lastCall.outcome \in { "normalise_failed", "commit_failed" }
    /\ lastCall.height \notin StoredHeights
    /\ lastCall.height \notin PublishedHeights
    /\ pc = "ws_block"

\* C15: the list GET /blocks returns is in strictly descending order of
\* block_number and holds the highest stored heights.
C15_DescendingByHeight ==
    LET response == get_blocks_response(store)
        returned == { response[i].block_number : i \in DOMAIN response }
    IN  /\ \A i, j \in DOMAIN response :
             i < j => response[i].block_number > response[j].block_number
        /\ \A h \in StoredHeights \ returned : \A g \in returned : h < g

\* C16: the channel only grows by one message, in a store_block call that
\* commits a record of the message's height which the store did not hold
\* before; no height is ever published twice.
C16_PublishOnlyFreshInsert ==
    /\ [][ published' # published =>
             /\ IsStoreBlockCall
             /\ lastCall'.outcome = "stored"
             /\ Len(published') = Len(published) + 1
             /\ SubSeq(published', 1, Len(published)) = published
             /\ LET h == Get(published'[Len(published')].json, "block_number")
                IN  /\ h = lastCall'.height
                    /\ RecordsFor(h) = {}
                    /\ \E r \in store' \ store : r.block_number = h ]_vars
    /\ [](\A i, j \in DOMAIN published :
            i # j => Get(published[i].json, "block_number")
                        # Get(published[j].json, "block_number"))

\* Two heights are published, and the listener has since made a call for a
\* height that is stored, which published nothing.
C16_Witness ==
    /\ Len(published) = 2
    /\ lastCall.outcome \in { "exists", "commit_failed" }
    /\ lastCall.present
    /\ lastCall.height \in PublishedHeights

\* C17: every step of the listener, of GET /blocks and of the /ws/blocks
\* handlers leaves each record of the store in the store, with its id, its
\* block_number and its timestamp.
C17_RecordsAreImmutable ==
    [][ \A r \in store :
          \E q \in store' :
              /\ q.id = r.id
              /\ q.block_number = r.block_number
              /\ q.timestamp = r.timestamp ]_vars

\* A store_block call for a height met the record of another height, the
\* one whose id is that height, and was skipped or rolled back; the record
\* is in the store as it was.
C17_Witness ==
    /\ store # {}
    /\ lastCall.outcome \in { "exists", "commit_failed", "normalise_failed" }
    /\ \E r \in store : r.id = lastCall.height /\ r.block_number # lastCall.height

\* The listener is inside a polling session on an HTTP endpoint.
InPollingSession == pc \in { "http_poll", "http_range", "http_end" }

\* C18: the end of a polling tick sets last_block to the height the tick
\* polled, whatever was skipped or failed in it; within a session last_block
\* never goes down and every height the session asks for is above it, so a
\* height of a finished tick is not asked for again.
C18_NoGapRecovery ==
    /\ [][ pc = "http_end" /\ pc' # pc =>
             pc' = "http_poll" /\ last_block' = current_block ]_vars
    /\ [][ InPollingSession /\ InPollingSession' =>
             last_block' >= last_block ]_vars
    /\ [](pc \in { "http_range", "http_end" } =>
            /\ \A h \in Range(calls) \cup skipped : h > last_block
            /\ pc = "http_range" => block_num > last_block)

\* A session that began at height 0 has moved last_block to 2 while height 1
\* has no record.
C18_Witness ==
    /\ pc = "http_poll"
    /\ start_block = 0
    /\ last_block = 2
    /\ 1 \notin StoredHeights

\* C19: a polling session never asks for a height at or below the height its
\* endpoint reported when the session began: last_block starts there and
\* every height of every tick is above it.
C19_SessionStartsAtReportedHeight ==
    /\ InPollingSession => last_block >= start_block
    /\ pc = "http_range" => block_num > start_block
    /\ pc \in { "http_range", "http_end" } =>
         \A h \in Range(calls) \cup skipped : h > start_block

\* A session that began at height 1 has stored height 2, and height 1, which
\* no earlier session stored, has no record.
C19_Witness ==
    /\ pc = "http_end"
    /\ start_block = 1
    /\ calls = << 2 >>
    /\ StoredHeights = { 2 }

\* C20: a store_block call whose publish fails after the commit leaves the new
\* record in the store and the channel as it was, and the listener goes on
\* in the same session; a height that is stored and not published is
\* published by no later step.
C20_PublishFailureKeepsRecord ==
    /\ [][ IsStoreBlockCall /\ lastCall'.outcome = "publish_failed" =>
             /\ \E r \in store' \ store : r.block_number = lastCall'.height
             /\ published' = published
             /\ subs' = subs
             /\ idx' = idx /\ failed' = failed
             /\ pc' \in { "ws_block", "ws_end", "http_range", "http_end" } ]_vars
    /\ [][ \A h \in StoredHeights \ PublishedHeights :
             /\ h \in { r.block_number : r \in store' }
             /\ \A i \in DOMAIN published' :
                  Get(published'[i].json, "block_number") # h ]_vars

\* A height is stored and not published, and the listener has called
\* store_block for it again.
C20_Witness ==
    /\ lastCall.present
    /\ lastCall.outcome \in { "exists", "commit_failed" }
    /\ lastCall.height \in StoredHeights \ PublishedHeights
====
